---- MODULE Spec2Model ----
(***************************************************************************)
(* Model of bytecode/concrete.py (vstinner/bytecode): the concrete         *)
(* instruction layer.  ConcreteInstr sizes and encodings, the assembly of  *)
(* a ConcreteBytecode into a byte string and a line table, its decoding    *)
(* with from_code, and the conversions between the abstract Bytecode and   *)
(* ConcreteBytecode.  The module models the word-code regime               *)
(* (_WORDCODE is true, Python >= 3.6): every unit is two bytes.            *)
(*                                                                         *)
(* Python values: UNSET and None are the empty tuple, an integer n that    *)
(* may also be UNSET/None is the 1-tuple <<n>>.  A raised exception is a   *)
(* non-empty string in an "err" field; "" means no exception.              *)
(***************************************************************************)
EXTENDS Integers, Sequences, FiniteSets, TLC

VARIABLES
  pc,            \* which object exists: the position in the pipeline
  err,           \* the exception the last operation raised, "" if none
  self,          \* the ConcreteBytecode: first_lineno, instrs, consts, varnames
  nset,          \* how many operands were reassigned (instr.arg = value)
  extended_arg,  \* from_code's extended_arg parameter
  co,            \* the code object: co_code, co_lnotab, co_firstlineno
  linenos,       \* _assemble_code's list of (offset, lineno)
  decoded,       \* the instructions of from_code's result
  bytecode,      \* the abstract Bytecode given to to_concrete_bytecode
  conv,          \* what to_concrete_bytecode went through
  result,        \* the instructions of to_bytecode's result
  lt             \* _assemble_lnotab's locals, one loop iteration at a time

vars == <<pc, err, self, nset, extended_arg, co, linenos, decoded, bytecode, conv, result, lt>>

\* ----------------------------------------------------------------- bounds
\* longest concrete container / abstract skeleton drawn by an Init
MaxInstrs == 3
\* longest raw byte stream, in 2-byte units, given to from_code directly
MaxUnits == 4
\* how many operand reassignments a behaviour makes
MaxSetArg == 1
\* longest list of (offset, lineno) given to _assemble_lnotab directly
MaxPairs == 3
\* longest run of 8-byte instructions that pads an abstract sequence
MaxPad == 31

\* ------------------------------------------------------------ Python bits
UNSET == <<>>
None == <<>>
Some(n) == <<n>>
\* Python integers are unbounded.  An integer above 2147483647 is kept as
\* Huge: from_code only shifts it further left and adds to it, and
\* _check_arg_int rejects it whatever it has become.
Huge == <<2147483647, 1>>
IsHuge(x) == Len(x) = 2

\* the opcode module's table for the opcodes the model uses (CPython 3.6)
opmap == [NOP |-> 9, LOAD_CONST |-> 100, BUILD_TUPLE |-> 102, JUMP_FORWARD |-> 110,
          JUMP_ABSOLUTE |-> 113, LOAD_FAST |-> 124, EXTENDED_ARG |-> 144]

OpNames == {"NOP", "LOAD_CONST", "BUILD_TUPLE", "JUMP_FORWARD", "JUMP_ABSOLUTE",
            "LOAD_FAST", "EXTENDED_ARG"}

HAVE_ARGUMENT == 90

hasjrel == {opmap["JUMP_FORWARD"]}

hasjabs == {opmap["JUMP_ABSOLUTE"]}

hasconst == {opmap["LOAD_CONST"]}

haslocal == {opmap["LOAD_FAST"]}

\* opname[op]: the name of a known opcode, "<op>" (no operation) otherwise
opname(op) ==
  IF \E n \in OpNames : opmap[n] = op
  THEN CHOOSE n \in OpNames : opmap[n] = op
  ELSE "<unknown>"

\* ---------------------------------------------------------- ConcreteInstr
\* _check_arg_int: the operand is an integer in 0..2147483647
check_arg_int(arg) == 0 <= arg /\ arg <= 2147483647

\* check_arg with a fault seeded: the range of the operand is not checked
check_arg_norange(name, opcode, arg) ==
  IF opcode >= HAVE_ARGUMENT
  THEN IF arg = UNSET THEN "ValueError: requires an argument" ELSE ""
  ELSE IF arg # UNSET THEN "ValueError: has no argument" ELSE ""

\* ConcreteInstr._check_arg: "" or the exception raised
check_arg(name, opcode, arg) ==
  IF opcode >= HAVE_ARGUMENT
  THEN IF arg = UNSET THEN "ValueError: requires an argument"
       ELSE IF ~IsHuge(arg) /\ check_arg_int(arg[1]) THEN ""
       ELSE "ValueError: argument out of range"
  ELSE IF arg # UNSET THEN "ValueError: has no argument" ELSE ""

RECURSIVE size_loop(_, _)
size_loop(size, arg) ==
  IF arg > 255 THEN size_loop(size + 2, arg \div 256) ELSE size

\* instr_size with a fault seeded: the size of the old fixed-width test (arg > 0xffff)
instr_size_wide(arg) ==
  IF arg = UNSET THEN 2 ELSE IF arg[1] > 65535 THEN 4 ELSE 2

\* ConcreteInstr._set, the size it stores: 2, plus 2 per shift of the operand
instr_size(arg) ==
  IF arg = UNSET THEN 2 ELSE size_loop(2, arg[1])

\* ConcreteInstr(name, arg, lineno=lineno), after _set succeeded
ConcreteInstr(name, arg, lineno) ==
  [kind |-> "ConcreteInstr", name |-> name, arg |-> arg, lineno |-> lineno,
   size |-> instr_size(arg)]

\* ConcreteInstr.__init__ / the arg setter: the exception _set raises, or ""
ConcreteInstrErr(name, arg) ==
  IF name \notin OpNames THEN "ValueError: invalid operation name"
  ELSE check_arg(name, opmap[name], arg)

SetLineno(lineno) == [kind |-> "SetLineno", lineno |-> Some(lineno)]

\* ConcreteInstr.get_jump_target: None or <<target>>
get_jump_target(instr, instr_offset) ==
  IF opmap[instr.name] \in hasjrel THEN Some(instr_offset + instr.size + instr.arg[1])
  ELSE IF opmap[instr.name] \in hasjabs THEN Some(instr.arg[1])
  ELSE None

RECURSIVE assemble_loop(_, _)
assemble_loop(arg, b) ==
  IF arg > 255
  THEN assemble_loop(arg \div 256,
                     <<opmap["EXTENDED_ARG"], (arg \div 256) % 256>> \o b)
  ELSE b

\* ConcreteInstr.assemble: the bytes of one instruction
assemble(instr) ==
  IF instr.arg = UNSET THEN <<opmap[instr.name], 0>>
  ELSE assemble_loop(instr.arg[1], <<opmap[instr.name], instr.arg[1] % 256>>)

\* ConcreteInstr.disassemble: [err, instr]; code is 1-indexed here
disassemble(lineno, code, offset) ==
  LET op == code[offset + 1]
      name == opname(op)
  IN IF op >= HAVE_ARGUMENT /\ offset + 2 > Len(code)
     THEN [err |-> "IndexError: index out of range", instr |-> <<>>]
     ELSE LET arg == IF op >= HAVE_ARGUMENT THEN Some(code[offset + 2]) ELSE UNSET
          IN IF ConcreteInstrErr(name, arg) # ""
             THEN [err |-> ConcreteInstrErr(name, arg), instr |-> <<>>]
             ELSE [err |-> "", instr |-> ConcreteInstr(name, arg, Some(lineno))]

\* ------------------------------------------------------- ConcreteBytecode
\* ConcreteBytecode._normalize_lineno: the pairs <<lineno, instr>> it yields
RECURSIVE normalize_loop(_, _, _, _)
normalize_loop(elems, i, lineno, out) ==
  IF i > Len(elems) THEN out
  ELSE LET instr == elems[i]
           ln == IF instr.lineno # None THEN instr.lineno[1] ELSE lineno
       IN normalize_loop(elems, i + 1, ln,
            IF instr.kind = "ConcreteInstr" THEN Append(out, <<ln, instr>>) ELSE out)

normalize_lineno(cb) == normalize_loop(cb.instrs, 1, cb.first_lineno, <<>>)

\* ConcreteBytecode._assemble_code: [code_str, linenos]
RECURSIVE assemble_code_loop(_, _, _, _, _)
assemble_code_loop(pairs, i, offset, code_str, lns) ==
  IF i > Len(pairs) THEN [code_str |-> code_str, linenos |-> lns]
  ELSE assemble_code_loop(pairs, i + 1, offset + pairs[i][2].size,
                          code_str \o assemble(pairs[i][2]),
                          Append(lns, <<offset, pairs[i][1]>>))

assemble_code(cb) == assemble_code_loop(normalize_lineno(cb), 1, 0, <<>>, <<>>)

\* struct.pack('Bb', doff, dlineno): two bytes, the second in two's complement
pack_Bb(doff, dlineno) == <<doff, dlineno % 256>>

RECURSIVE split_doff(_, _)
split_doff(doff, lnotab) ==
  IF doff > 255 THEN split_doff(doff - 255, lnotab \o <<255, 0>>)
  ELSE [doff |-> doff, lnotab |-> lnotab]

RECURSIVE split_neg(_, _)
split_neg(dlineno, lnotab) ==
  IF dlineno < -127 THEN split_neg(dlineno + 127, lnotab \o pack_Bb(0, -127))
  ELSE [dlineno |-> dlineno, lnotab |-> lnotab]

RECURSIVE split_pos(_, _)
split_pos(dlineno, lnotab) ==
  IF dlineno > 126 THEN split_pos(dlineno - 126, lnotab \o pack_Bb(0, 126))
  ELSE [dlineno |-> dlineno, lnotab |-> lnotab]

\* lnotab_entry with a fault seeded: the line delta is not split before it is packed
lnotab_entry_nosplit(doff, dlineno, lnotab) ==
  LET a == split_doff(doff, lnotab)
  IN [err |-> "", lnotab |-> a.lnotab \o pack_Bb(a.doff, dlineno)]

\* the body of _assemble_lnotab's loop for one line change: the three
\* splitting loops, the two assertions, the final pair
lnotab_entry(doff, dlineno, lnotab) ==
  LET a == split_doff(doff, lnotab)
      b == split_neg(dlineno, a.lnotab)
      c == split_pos(b.dlineno, b.lnotab)
  IN IF ~(0 <= a.doff /\ a.doff <= 255) \/ ~(-127 <= c.dlineno /\ c.dlineno <= 126)
     THEN [err |-> "AssertionError", lnotab |-> c.lnotab]
     ELSE [err |-> "", lnotab |-> c.lnotab \o pack_Bb(a.doff, c.dlineno)]

\* ConcreteBytecode._assemble_lnotab: [err, lnotab]
RECURSIVE assemble_lnotab_loop(_, _, _, _, _)
assemble_lnotab_loop(lns, i, old_offset, old_lineno, lnotab) ==
  IF i > Len(lns) THEN [err |-> "", lnotab |-> lnotab]
  ELSE LET offset == lns[i][1]
           lineno == lns[i][2]
           dlineno == lineno - old_lineno
       IN IF dlineno = 0
          THEN assemble_lnotab_loop(lns, i + 1, old_offset, old_lineno, lnotab)
          ELSE LET e == lnotab_entry(offset - old_offset, dlineno, lnotab)
               IN IF e.err # "" THEN e
                  ELSE assemble_lnotab_loop(lns, i + 1, offset, lineno, e.lnotab)

assemble_lnotab(first_lineno, lns) ==
  assemble_lnotab_loop(lns, 1, 0, first_lineno, <<>>)

\* dis.findlinestarts(code) of CPython 3.6, as from_code calls it: the pairs
\* <<addr, lineno>> it yields, in order
RECURSIVE findlinestarts_loop(_, _, _, _, _, _)
findlinestarts_loop(lnotab, i, addr, lineno, lastlineno, out) ==
  IF i + 1 > Len(lnotab)
  THEN IF Some(lineno) # lastlineno THEN Append(out, <<addr, lineno>>) ELSE out
  ELSE LET byte_incr == lnotab[i]
           raw == lnotab[i + 1]
           line_incr == IF raw >= 128 THEN raw - 256 ELSE raw
           yields == byte_incr # 0 /\ Some(lineno) # lastlineno
       IN findlinestarts_loop(lnotab, i + 2, addr + byte_incr, lineno + line_incr,
            IF yields THEN Some(lineno) ELSE lastlineno,
            IF yields THEN Append(out, <<addr, lineno>>) ELSE out)

findlinestarts(code) == findlinestarts_loop(code.co_lnotab, 1, 0, code.co_firstlineno, None, <<>>)

\* dict(pairs): a later pair with the same key replaces the earlier one
RECURSIVE dict(_)
dict(pairs) ==
  IF pairs = <<>> THEN <<>>
  ELSE LET d == dict(SubSeq(pairs, 1, Len(pairs) - 1))
           kv == pairs[Len(pairs)]
       IN [k \in DOMAIN d \cup {kv[1]} |-> IF k = kv[1] THEN kv[2] ELSE d[k]]

\* from_code, first loop: one ConcreteInstr per unit, with its line
RECURSIVE disassemble_loop(_, _, _, _, _)
disassemble_loop(code, line_starts, offset, lineno, instructions) ==
  IF ~(offset < Len(code.co_code)) THEN [err |-> "", instructions |-> instructions]
  ELSE LET ln == IF offset \in DOMAIN line_starts THEN line_starts[offset] ELSE lineno
           d == disassemble(ln, code.co_code, offset)
       IN IF d.err # "" THEN [err |-> d.err, instructions |-> instructions]
          ELSE disassemble_loop(code, line_starts, offset + d.instr.size, ln,
                                Append(instructions, d.instr))

\* merge_end with a fault seeded: a pending EXTENDED_ARG at the end is ignored
merge_end_silent(ext, instructions) ==
  [err |-> "", instructions |-> instructions]

\* from_code, after the merging loop: a pending EXTENDED_ARG is an error
merge_end(ext, instructions) ==
  IF ext # None
  THEN [err |-> "ValueError: EXTENDED_ARG at the end of the code", instructions |-> instructions]
  ELSE [err |-> "", instructions |-> instructions]

\* merged_arg with a fault seeded: the prefix is not shifted
merged_arg_noshift(ext, arg) ==
  IF IsHuge(ext) THEN Huge ELSE Some(ext[1] + arg)

\* from_code: (extended_arg << 8) + instr.arg
merged_arg(ext, arg) ==
  IF IsHuge(ext) \/ ext[1] > 8388607 THEN Huge ELSE Some(ext[1] * 256 + arg)

\* from_code, second loop: EXTENDED_ARG prefixes are merged into the
\* instruction that follows and deleted
RECURSIVE merge_loop(_, _, _)
merge_loop(instructions, index, ext) ==
  IF ~(index <= Len(instructions)) THEN merge_end(ext, instructions)
  ELSE LET instr == instructions[index]
       IN IF instr.name = "EXTENDED_ARG"
          THEN merge_loop(SubSeq(instructions, 1, index - 1)
                            \o SubSeq(instructions, index + 1, Len(instructions)),
                          index,
                          IF ext # None THEN merged_arg(ext, instr.arg[1])
                          ELSE instr.arg)
          ELSE IF ext # None
          THEN IF instr.arg = UNSET
               THEN [err |-> "TypeError: int + UNSET", instructions |-> instructions]
               ELSE LET arg == merged_arg(ext, instr.arg[1])
                    IN IF ConcreteInstrErr(instr.name, arg) # ""
                       THEN [err |-> ConcreteInstrErr(instr.name, arg),
                             instructions |-> instructions]
                       ELSE merge_loop([instructions EXCEPT ![index] =
                                          ConcreteInstr(instr.name, arg, instr.lineno)],
                                       index + 1, None)
          ELSE merge_loop(instructions, index + 1, ext)

\* ConcreteBytecode.from_code(code, extended_arg=flag): [err, instructions]
from_code(code, flag) ==
  LET line_starts == dict(findlinestarts(code))
      d == disassemble_loop(code, line_starts, 0, code.co_firstlineno, <<>>)
  IN IF d.err # "" THEN d
     ELSE IF ~flag THEN merge_loop(d.instructions, 1, None)
     ELSE d

\* -------------------------------------------------- abstract instructions
\* Operands of the abstract layer are tagged: unset, a raw integer, a
\* constant, a local-variable name, a label.
UnsetArg == [tag |-> "unset"]
IntArg(n) == [tag |-> "int", value |-> n]
ConstArg(v) == [tag |-> "const", value |-> v]
LocalArg(v) == [tag |-> "local", value |-> v]
LabelArg(id) == [tag |-> "label", id |-> id]

Instr(name, arg, lineno) == [kind |-> "Instr", name |-> name, arg |-> arg, lineno |-> lineno]

Label(id) == [kind |-> "Label", id |-> id, lineno |-> None]

\* seq.index(x), 0-based; -1 when x is not in seq
index_of(seq, x) ==
  IF \E i \in 1..Len(seq) : seq[i] = x
  THEN (CHOOSE i \in 1..Len(seq) : seq[i] = x /\ \A j \in 1..(i - 1) : seq[j] # x) - 1
  ELSE -1

\* d[k] = v on a dict kept as a function
put(d, k, v) == [x \in DOMAIN d \cup {k} |-> IF x = k THEN v ELSE d[x]]

\* ------------------------------------------ ConcreteBytecode.to_bytecode
\* first loop: the set of byte offsets some instruction jumps to
RECURSIVE jump_targets_loop(_, _, _, _)
jump_targets_loop(elems, i, offset, targets) ==
  IF i > Len(elems) THEN targets
  ELSE LET instr == elems[i]
       IN IF instr.kind = "SetLineno"
          THEN jump_targets_loop(elems, i + 1, offset, targets)
          ELSE LET target == get_jump_target(instr, offset)
               IN jump_targets_loop(elems, i + 1, offset + instr.size,
                    IF target # None THEN targets \cup {target[1]} ELSE targets)

\* the operand of the abstract instruction: [err, arg]
resolve_arg(cb, instr) ==
  IF opmap[instr.name] \in hasconst
  THEN IF instr.arg[1] >= Len(cb.consts) THEN [err |-> "IndexError: consts", arg |-> UnsetArg]
       ELSE [err |-> "", arg |-> ConstArg(cb.consts[instr.arg[1] + 1])]
  ELSE IF opmap[instr.name] \in haslocal
  THEN IF instr.arg[1] >= Len(cb.varnames) THEN [err |-> "IndexError: varnames", arg |-> UnsetArg]
       ELSE [err |-> "", arg |-> LocalArg(cb.varnames[instr.arg[1] + 1])]
  ELSE [err |-> "", arg |-> IF instr.arg = UNSET THEN UnsetArg ELSE IntArg(instr.arg[1])]

\* second loop: labels are inserted before the instruction at a target
\* offset; a jump is kept as its ConcreteInstr and its index recorded
RECURSIVE to_bytecode_loop(_, _, _, _, _, _, _, _)
to_bytecode_loop(cb, pairs, i, offset, targets, instructions, labels, jumps) ==
  IF i > Len(pairs)
  THEN [err |-> "", instructions |-> instructions, labels |-> labels, jumps |-> jumps]
  ELSE LET lineno == pairs[i][1]
           instr == pairs[i][2]
           withlabel == IF offset \in targets THEN Append(instructions, Label(offset))
                        ELSE instructions
           labels2 == IF offset \in targets THEN labels \cup {offset} ELSE labels
           jump_target == get_jump_target(instr, offset)
           r == resolve_arg(cb, instr)
       IN IF r.err # ""
          THEN [err |-> r.err, instructions |-> withlabel, labels |-> labels2, jumps |-> jumps]
          ELSE IF jump_target = None
          THEN to_bytecode_loop(cb, pairs, i + 1, offset + instr.size, targets,
                 Append(withlabel, Instr(instr.name, r.arg, Some(lineno))), labels2, jumps)
          ELSE to_bytecode_loop(cb, pairs, i + 1, offset + instr.size, targets,
                 Append(withlabel, instr), labels2,
                 Append(jumps, <<Len(withlabel) + 1, jump_target[1]>>))

\* third loop: each recorded jump becomes an Instr whose operand is the
\* label of its target, with the line of the ConcreteInstr it replaces
RECURSIVE replace_jumps_loop(_, _, _, _)
replace_jumps_loop(instructions, labels, jumps, j) ==
  IF j > Len(jumps) THEN [err |-> "", instructions |-> instructions]
  ELSE LET index == jumps[j][1]
           jump_target == jumps[j][2]
           instr == instructions[index]
       IN IF jump_target \notin labels
          THEN [err |-> "KeyError: label", instructions |-> instructions]
          ELSE replace_jumps_loop(
                 [instructions EXCEPT ![index] =
                    Instr(instr.name, LabelArg(jump_target), instr.lineno)],
                 labels, jumps, j + 1)

\* ConcreteBytecode.to_bytecode: [err, instructions]
to_bytecode(cb) ==
  LET targets == jump_targets_loop(cb.instrs, 1, 0, {})
      r == to_bytecode_loop(cb, normalize_lineno(cb), 1, 0, targets, <<>>, {}, <<>>)
  IN IF r.err # "" THEN [err |-> r.err, instructions |-> r.instructions]
     ELSE replace_jumps_loop(r.instructions, r.labels, r.jumps, 1)

\* -------------------------------------------- _ConvertBytecodeToConcrete
\* const_key(value): the type and the value, so that True and 1 differ
const_key(value) == <<value.type, value>>

\* add_const: [consts, index]; consts is the dict's keys in insertion order
add_const(consts, value) ==
  IF index_of(consts, const_key(value)) >= 0
  THEN [pool |-> consts, index |-> index_of(consts, const_key(value))]
  ELSE [pool |-> Append(consts, const_key(value)), index |-> Len(consts)]

\* add(names, name): [pool, index]
add(names, name) ==
  IF index_of(names, name) >= 0
  THEN [pool |-> names, index |-> index_of(names, name)]
  ELSE [pool |-> Append(names, name), index |-> Len(names)]

\* concrete_instructions, the loop over self.bytecode; st carries the
\* converter's fields and the running line
RECURSIVE concrete_instructions_loop(_, _, _)
concrete_instructions_loop(bc, i, st) ==
  IF i > Len(bc.instrs) \/ st.err # "" THEN st
  ELSE LET instr == bc.instrs[i]
       IN IF instr.kind = "Label"
          THEN concrete_instructions_loop(bc, i + 1,
                 [st EXCEPT !.labels = put(@, instr.id, Len(st.instructions))])
          ELSE IF instr.kind = "SetLineno"
          THEN concrete_instructions_loop(bc, i + 1, [st EXCEPT !.lineno = instr.lineno[1]])
          ELSE IF instr.kind = "ConcreteInstr"
          THEN concrete_instructions_loop(bc, i + 1,
                 [st EXCEPT !.instructions = Append(@, instr)])
          ELSE LET lineno == IF instr.lineno # None THEN instr.lineno[1] ELSE st.lineno
                   is_jump == instr.arg.tag = "label"
                   c == IF instr.arg.tag = "const" THEN add_const(st.consts, instr.arg.value)
                        ELSE [pool |-> st.consts, index |-> 0]
                   v == IF instr.arg.tag = "local" THEN add(st.varnames, instr.arg.value)
                        ELSE [pool |-> st.varnames, index |-> 0]
                   arg == IF is_jump THEN Some(0)
                          ELSE IF opmap[instr.name] \in hasconst THEN Some(c.index)
                          ELSE IF opmap[instr.name] \in haslocal THEN Some(v.index)
                          ELSE IF instr.arg.tag = "int" THEN Some(instr.arg.value)
                          ELSE UNSET
                   e == ConcreteInstrErr(instr.name, arg)
               IN IF e # "" THEN [st EXCEPT !.err = e]
                  ELSE concrete_instructions_loop(bc, i + 1,
                         [st EXCEPT !.lineno = lineno,
                                    !.consts = IF is_jump THEN @ ELSE c.pool,
                                    !.varnames = IF is_jump THEN @ ELSE v.pool,
                                    !.jumps = IF is_jump
                                              THEN Append(@, <<Len(st.instructions), instr.arg.id>>)
                                              ELSE @,
                                    !.instructions = Append(@, ConcreteInstr(instr.name, arg, Some(lineno)))])

\* compute_jumps: the offsets list, one entry per instruction and one for
\* the end of the code
RECURSIVE offsets_loop(_, _, _, _)
offsets_loop(instructions, i, offset, offsets) ==
  IF i > Len(instructions) THEN Append(offsets, offset)
  ELSE offsets_loop(instructions, i + 1, offset + instructions[i].size,
                    Append(offsets, offset))

compute_offsets(instructions) == offsets_loop(instructions, 1, 0, <<>>)

\* compute_jumps: the operand of a jump whose label is at target_offset
jump_operand(instr, instr_offset, target_offset) ==
  IF opmap[instr.name] \in hasjrel THEN target_offset - (instr_offset + instr.size)
  ELSE target_offset

\* compute_jumps, the loop over self.jumps: [err, modified, instructions]
RECURSIVE compute_jumps_loop(_, _, _, _, _, _)
compute_jumps_loop(instructions, jumps, labels, offsets, j, modified) ==
  IF j > Len(jumps) THEN [err |-> "", modified |-> modified, instructions |-> instructions]
  ELSE LET index == jumps[j][1]
           label == jumps[j][2]
           instr == instructions[index + 1]
       IN IF label \notin DOMAIN labels
          THEN [err |-> "KeyError: label", modified |-> modified, instructions |-> instructions]
          ELSE LET target_offset == jump_operand(instr, offsets[index + 1],
                                                 offsets[labels[label] + 1])
                   e == ConcreteInstrErr(instr.name, Some(target_offset))
                   new == ConcreteInstr(instr.name, Some(target_offset), instr.lineno)
               IN IF e # ""
                  THEN [err |-> e, modified |-> modified, instructions |-> instructions]
                  ELSE compute_jumps_loop([instructions EXCEPT ![index + 1] = new],
                         jumps, labels, offsets, j + 1,
                         modified \/ new.size # instr.size)

compute_jumps(instructions, jumps, labels) ==
  compute_jumps_loop(instructions, jumps, labels, compute_offsets(instructions), 1, FALSE)

\* the consts list built from the dict: item[1] of every key
RECURSIVE const_values(_)
const_values(keys) ==
  IF keys = <<>> THEN <<>> ELSE <<keys[1][2]>> \o const_values(Tail(keys))

NoConcrete == [first_lineno |-> 1, instrs |-> <<>>, consts |-> <<>>, varnames |-> <<>>]

\* second_pass with a fault seeded: the layout is taken after one pass
second_pass_skipped(p1, st) == [p1 EXCEPT !.modified = FALSE]

\* to_concrete_bytecode: the second call of compute_jumps, made when the
\* first one changed a size
second_pass(p1, st) ==
  IF p1.modified THEN compute_jumps(p1.instructions, st.jumps, st.labels) ELSE p1

\* to_concrete_bytecode: [err, passes, modified1, queued, jumps, labels, concrete];
\* queued is self.instructions as concrete_instructions left it
to_concrete_bytecode(bc) ==
  LET consts0 == IF bc.docstring # UNSET THEN add_const(<<>>, bc.docstring[1]).pool ELSE <<>>
      st == concrete_instructions_loop(bc, 1,
              [err |-> "", instructions |-> <<>>, jumps |-> <<>>, labels |-> <<>>,
               consts |-> consts0, varnames |-> bc.argnames, lineno |-> bc.first_lineno])
      p1 == compute_jumps(st.instructions, st.jumps, st.labels)
      p2 == second_pass(p1, st)
      out(e, n, p) == [err |-> e, passes |-> n, modified1 |-> p1.modified,
                       queued |-> st.instructions,
                       jumps |-> st.jumps, labels |-> st.labels,
                       concrete |-> IF e # "" THEN NoConcrete
                                    ELSE [first_lineno |-> bc.first_lineno,
                                          instrs |-> p.instructions,
                                          consts |-> const_values(st.consts),
                                          varnames |-> st.varnames]]
  IN IF st.err # ""
     THEN [err |-> st.err, passes |-> 0, modified1 |-> FALSE, queued |-> st.instructions,
           jumps |-> st.jumps, labels |-> st.labels, concrete |-> NoConcrete]
     ELSE IF p1.err # "" THEN out(p1.err, 1, p1)
     ELSE IF ~p1.modified THEN out("", 1, p1)
     ELSE IF p2.err # "" THEN out(p2.err, 2, p2)
     ELSE IF p2.modified THEN out("RuntimeError: compute_jumps() must not modify jumps", 2, p2)
     ELSE out("", 2, p2)

\* ------------------------------------------------------------ the inputs
SeqsUpTo(S, n) == UNION {[1..k -> S] : k \in 0..n}

\* operands: one, two, three and four bytes wide, and the boundaries
ArgValues == {0, 44, 255, 256, 300, 65536, 2147483647}

\* operands assigned to an instruction of a container
SetArgValues == {44, 300}

LineValues == {10, 140}

ConstA == [type |-> "int", value |-> 1]
ConstTrue == [type |-> "bool", value |-> 1]

\* containers that vary the operands
OperandInstrs ==
  {ConcreteInstr("NOP", UNSET, None)}
  \cup {ConcreteInstr("LOAD_CONST", Some(a), None) : a \in ArgValues}
  \cup {ConcreteInstr("EXTENDED_ARG", Some(a), None) : a \in {1, 300}}

\* containers that vary the lines
LineInstrs ==
  {ConcreteInstr(n[1], n[2], l) :
     n \in {<<"NOP", UNSET>>, <<"JUMP_ABSOLUTE", Some(0)>>},
     l \in {None} \cup {Some(x) : x \in LineValues}}
  \cup {SetLineno(140)}

Containers ==
  {[first_lineno |-> 10, instrs |-> s, consts |-> <<ConstA>>, varnames |-> <<>>] :
     s \in SeqsUpTo(OperandInstrs, MaxInstrs)}
  \cup {[first_lineno |-> f, instrs |-> s, consts |-> <<ConstA>>, varnames |-> <<>>] :
          f \in LineValues, s \in SeqsUpTo(LineInstrs, MaxInstrs)}

\* raw byte streams: units (opcode, byte), the last byte possibly missing
RawUnits == {<<op, b>> : op \in {opmap["NOP"], opmap["LOAD_CONST"], opmap["EXTENDED_ARG"]},
                         b \in {1, 255}}

RECURSIVE flatten(_)
flatten(units) == IF units = <<>> THEN <<>> ELSE units[1] \o flatten(Tail(units))

RawCodes ==
  LET whole == {flatten(u) : u \in SeqsUpTo(RawUnits, MaxUnits)}
  IN whole \cup {SubSeq(c, 1, Len(c) - 1) : c \in whole \ {<<>>}}

NoCode == [co_code |-> <<>>, co_lnotab |-> <<>>, co_firstlineno |-> 1]

NoBytecode == [first_lineno |-> 1, docstring |-> UNSET, argnames |-> <<>>, instrs |-> <<>>]

NoConv == [passes |-> 0, modified1 |-> FALSE, queued |-> <<>>, jumps |-> <<>>, labels |-> <<>>]

NoLt == [first_lineno |-> 1, i |-> 1, old_offset |-> 0, old_lineno |-> 1, lnotab |-> <<>>,
         doff |-> 0, dlineno |-> 0, emitted |-> <<>>]

\* abstract sequences: short ones of every shape ...
AbstractElems ==
  {Label(1), Label(2), SetLineno(140),
   Instr("NOP", UnsetArg, None),
   Instr("LOAD_CONST", ConstArg(ConstA), Some(10)),
   Instr("LOAD_CONST", ConstArg(ConstTrue), None),
   Instr("LOAD_FAST", LocalArg("x"), None)}
  \cup {Instr(n, LabelArg(l), None) : n \in {"JUMP_ABSOLUTE", "JUMP_FORWARD"}, l \in {1, 2}}

\* ... and long ones: one or two jumps, a run of 8-byte instructions (an
\* operand of four bytes), then labels and NOPs
Jumps == {Instr(n, LabelArg(l), None) : n \in {"JUMP_ABSOLUTE", "JUMP_FORWARD"}, l \in {1, 2}}

PadSizes == {0} \cup ((MaxPad - 1)..MaxPad)

Pad(n) == [k \in 1..n |-> Instr("BUILD_TUPLE", IntArg(16777216), None)]

PaddedSeqs ==
  {j \o Pad(n) \o t :
     j \in SeqsUpTo(Jumps, 2) \ {<<>>}, n \in PadSizes,
     t \in SeqsUpTo({Label(1), Label(2), Instr("NOP", UnsetArg, None)}, 4)}

Bytecodes ==
  {[first_lineno |-> 10, docstring |-> d, argnames |-> <<>>, instrs |-> s] :
     d \in {UNSET, Some([type |-> "str", value |-> 0])},
     s \in SeqsUpTo(AbstractElems, MaxInstrs)}
  \cup {[first_lineno |-> 10, docstring |-> UNSET, argnames |-> <<>>, instrs |-> s] :
          s \in PaddedSeqs}

\* lists of (offset, lineno) with non-decreasing offsets
LnotabOffsets == {0, 2, 300, 600}
LnotabLines == {10, 140, 300}

LinenoLists ==
  {s \in SeqsUpTo(LnotabOffsets \X LnotabLines, MaxPairs) :
     \A i \in 1..(Len(s) - 1) : s[i][1] <= s[i + 1][1]}

\* -------------------------------------------------------------- the steps
InitContainer ==
  /\ pc = "container" /\ err = "" /\ self \in Containers /\ nset = 0
  /\ extended_arg = FALSE /\ co = NoCode /\ linenos = <<>> /\ decoded = <<>>
  /\ bytecode = NoBytecode /\ conv = NoConv /\ result = <<>> /\ lt = NoLt

InitRaw ==
  /\ pc = "rawcode" /\ err = "" /\ self = NoConcrete /\ nset = 0
  /\ extended_arg = FALSE /\ linenos = <<>> /\ decoded = <<>>
  /\ co \in {[co_code |-> c, co_lnotab |-> <<>>, co_firstlineno |-> 1] : c \in RawCodes}
  /\ bytecode = NoBytecode /\ conv = NoConv /\ result = <<>> /\ lt = NoLt

InitBytecode ==
  /\ pc = "bytecode" /\ err = "" /\ self = NoConcrete /\ nset = 0
  /\ extended_arg = FALSE /\ co = NoCode /\ linenos = <<>> /\ decoded = <<>>
  /\ bytecode \in Bytecodes /\ conv = NoConv /\ result = <<>> /\ lt = NoLt

InitLnotab ==
  /\ pc = "lnotab" /\ err = "" /\ self = NoConcrete /\ nset = 0
  /\ extended_arg = FALSE /\ co = NoCode /\ decoded = <<>>
  /\ linenos \in LinenoLists
  /\ \E f \in LnotabLines : lt = [NoLt EXCEPT !.first_lineno = f, !.old_lineno = f]
  /\ bytecode = NoBytecode /\ conv = NoConv /\ result = <<>>

\* instr.arg = value on the i-th element of the container: _set checks the
\* operand and stores the new size
SetArg ==
  /\ pc = "container" /\ nset < MaxSetArg
  /\ \E i \in 1..Len(self.instrs), v \in SetArgValues :
       /\ self.instrs[i].kind = "ConcreteInstr"
       /\ LET instr == self.instrs[i]
              e == ConcreteInstrErr(instr.name, Some(v))
          IN /\ err' = e
             /\ self' = IF e # "" THEN self
                        ELSE [self EXCEPT !.instrs[i] = ConcreteInstr(instr.name, Some(v), instr.lineno)]
  /\ nset' = nset + 1
  /\ UNCHANGED <<pc, extended_arg, co, linenos, decoded, bytecode, conv, result, lt>>

\* to_code's first two lines: _assemble_code, then _assemble_lnotab
Assemble ==
  /\ pc = "container"
  /\ LET a == assemble_code(self)
         t == assemble_lnotab(self.first_lineno, a.linenos)
     IN /\ linenos' = a.linenos
        /\ err' = t.err
        /\ co' = [co_code |-> a.code_str, co_lnotab |-> t.lnotab,
                  co_firstlineno |-> self.first_lineno]
        /\ pc' = IF t.err # "" THEN "failed" ELSE "code"
  /\ UNCHANGED <<self, nset, extended_arg, decoded, bytecode, conv, result, lt>>

\* ConcreteBytecode.from_code(code, extended_arg=flag)
FromCode ==
  /\ pc \in {"code", "rawcode"}
  /\ \E flag \in BOOLEAN :
       LET r == from_code(co, flag)
       IN /\ extended_arg' = flag
          /\ err' = r.err
          /\ decoded' = IF r.err # "" THEN <<>> ELSE r.instructions
  /\ pc' = IF pc = "code" THEN "decoded" ELSE "rawdecoded"
  /\ UNCHANGED <<self, nset, co, linenos, bytecode, conv, result, lt>>

\* ConcreteBytecode.to_bytecode()
ToBytecode ==
  /\ pc \in {"container", "concrete"}
  /\ LET r == to_bytecode(self)
     IN /\ err' = r.err
        /\ result' = IF r.err # "" THEN <<>> ELSE r.instructions
  /\ pc' = IF pc = "container" THEN "abstract" ELSE "roundtrip"
  /\ UNCHANGED <<self, nset, extended_arg, co, linenos, decoded, bytecode, conv, lt>>

\* _ConvertBytecodeToConcrete(bytecode).to_concrete_bytecode()
ToConcreteBytecode ==
  /\ pc = "bytecode"
  /\ LET r == to_concrete_bytecode(bytecode)
     IN /\ err' = r.err
        /\ self' = r.concrete
        /\ conv' = [passes |-> r.passes, modified1 |-> r.modified1, queued |-> r.queued,
                    jumps |-> r.jumps, labels |-> r.labels]
        /\ pc' = IF r.err # "" THEN "failed" ELSE "concrete"
  /\ UNCHANGED <<nset, extended_arg, co, linenos, decoded, bytecode, result, lt>>

\* one iteration of _assemble_lnotab's loop
LnotabStep ==
  /\ pc = "lnotab" /\ lt.i <= Len(linenos)
  /\ LET offset == linenos[lt.i][1]
         lineno == linenos[lt.i][2]
         dlineno == lineno - lt.old_lineno
         e == lnotab_entry(offset - lt.old_offset, dlineno, lt.lnotab)
     IN IF dlineno = 0
        THEN /\ lt' = [lt EXCEPT !.i = @ + 1, !.doff = offset - lt.old_offset,
                                 !.dlineno = 0, !.emitted = <<>>]
             /\ UNCHANGED <<pc, err>>
        ELSE /\ lt' = [lt EXCEPT !.i = @ + 1, !.old_offset = offset, !.old_lineno = lineno,
                                 !.doff = offset - lt.old_offset, !.dlineno = dlineno,
                                 !.lnotab = e.lnotab,
                                 !.emitted = SubSeq(e.lnotab, Len(lt.lnotab) + 1, Len(e.lnotab))]
             /\ err' = e.err
             /\ pc' = IF e.err # "" THEN "failed" ELSE pc
  /\ UNCHANGED <<self, nset, extended_arg, co, linenos, decoded, bytecode, conv, result>>

\* _assemble_lnotab returns b''.join(lnotab)
LnotabReturn ==
  /\ pc = "lnotab" /\ lt.i > Len(linenos)
  /\ co' = [co EXCEPT !.co_lnotab = lt.lnotab, !.co_firstlineno = lt.first_lineno]
  /\ pc' = "lnotab_done"
  /\ UNCHANGED <<err, self, nset, extended_arg, linenos, decoded, bytecode, conv, result, lt>>

\* ------------------------------------------------------ the specifications
\* encode and decode: container -> bytes and line table -> instructions
Init == InitContainer \/ InitRaw

Next == SetArg \/ Assemble \/ FromCode \/ ToBytecode

Spec == Init /\ [][Next]_vars

\* abstract -> concrete -> abstract
NextConvert == ToConcreteBytecode \/ ToBytecode

SpecConvert == InitBytecode /\ [][NextConvert]_vars

\* the line table, one line change at a time
NextLnotab == LnotabStep \/ LnotabReturn

SpecLnotab == InitLnotab /\ [][NextLnotab]_vars

\* ------------------------------------------------------------ properties
\* helpers of the properties below
RECURSIVE SelectKind(_, _)
SelectKind(seq, kind) ==
  IF seq = <<>> THEN <<>>
  ELSE (IF seq[1].kind = kind THEN <<seq[1]>> ELSE <<>>) \o SelectKind(Tail(seq), kind)

\* the (name, operand) of every instruction of a sequence, markers left out
Ops(seq) ==
  LET c == SelectKind(seq, "ConcreteInstr")
  IN [i \in 1..Len(c) |-> <<c[i].name, c[i].arg>>]

NoExplicitPrefix(cb) ==
  \A i \in 1..Len(cb.instrs) :
    cb.instrs[i].kind = "ConcreteInstr" => cb.instrs[i].name # "EXTENDED_ARG"

RECURSIVE ConcatAssembled(_)
ConcatAssembled(seq) ==
  IF seq = <<>> THEN <<>> ELSE assemble(seq[1]) \o ConcatAssembled(Tail(seq))

\* C1 as stated: for ANY container, from_code with the default merging
\* pass, applied to the bytes of _assemble_code, returns the container's
\* sequence of (opcode, operand).
C1_RoundTripAnyContainer ==
  (pc = "decoded" /\ ~extended_arg)
    => (err = "" /\ Ops(decoded) = Ops(self.instrs))

\* C1 amended: for any container that holds no explicit EXTENDED_ARG
\* instruction, from_code with the default merging pass, applied to the
\* bytes of _assemble_code, succeeds and returns the container's sequence
\* of (opcode, operand): 300 comes back as 300, an absent operand as absent.
C1_RoundTripNoExplicitPrefix ==
  (pc = "decoded" /\ ~extended_arg /\ NoExplicitPrefix(self))
    => (err = "" /\ Ops(decoded) = Ops(self.instrs))

C1_Witness ==
  /\ pc = "decoded" /\ ~extended_arg /\ NoExplicitPrefix(self) /\ err = ""
  /\ co.co_code = <<144, 1, 100, 44, 9, 0, 144, 127, 144, 255, 144, 255, 100, 255>>
  /\ Ops(decoded) = <<<<"LOAD_CONST", Some(300)>>, <<"NOP", UNSET>>,
                      <<"LOAD_CONST", Some(2147483647)>>>>

\* C2: after encoding and decoding a container, every instruction carries
\* the line that _normalize_lineno gave it in the container.
C2_LineRoundTrip ==
  (pc = "decoded" /\ ~extended_arg /\ NoExplicitPrefix(self) /\ err = "")
    => LET pairs == normalize_lineno(self)
       IN /\ Len(decoded) = Len(pairs)
          /\ \A k \in 1..Len(pairs) : decoded[k].lineno = Some(pairs[k][1])

\* the last unit of a byte stream is an EXTENDED_ARG (its operand byte may
\* be cut off)
LastIsPrefix(code) ==
  /\ Len(code) >= 1
  /\ code[IF Len(code) % 2 = 0 THEN Len(code) - 1 ELSE Len(code)] = opmap["EXTENDED_ARG"]

\* C8: from_code with merging enabled raises for every byte stream whose
\* last instruction is an EXTENDED_ARG, and a sequence it returns holds no
\* EXTENDED_ARG instruction.
C8_DanglingPrefixIsFatal ==
  (pc \in {"decoded", "rawdecoded"} /\ ~extended_arg)
    => /\ LastIsPrefix(co.co_code) => (err # "" /\ decoded = <<>>)
       /\ err = "" => \A k \in 1..Len(decoded) : decoded[k].name # "EXTENDED_ARG"

C8_Witness ==
  /\ pc = "rawdecoded" /\ ~extended_arg
  /\ co.co_code = <<100, 1, 144, 1, 144, 255>>
  /\ err = "ValueError: EXTENDED_ARG at the end of the code"

\* C9: every instruction of to_bytecode's result, a jump as well, carries
\* the line _normalize_lineno yields for it.
C9_LinesInEffect ==
  (pc = "abstract" /\ err = "")
    => LET pairs == normalize_lineno(self)
           out == SelectKind(result, "Instr")
       IN /\ Len(out) = Len(pairs)
          /\ \A k \in 1..Len(pairs) : out[k].lineno = Some(pairs[k][1])

\* C10: the size of every ConcreteInstr, constructed, reassigned or
\* decoded, is the number of bytes assemble returns for it, and the
\* offsets _assemble_code records are the positions of the instructions'
\* bytes in the assembled string.
C10_SizeIsEncodedLength ==
  /\ \A i \in 1..Len(self.instrs) :
       self.instrs[i].kind = "ConcreteInstr"
         => self.instrs[i].size = Len(assemble(self.instrs[i]))
  /\ \A i \in 1..Len(decoded) : decoded[i].size = Len(assemble(decoded[i]))
  /\ pc = "code" =>
       LET c == SelectKind(self.instrs, "ConcreteInstr")
       IN /\ Len(linenos) = Len(c)
          /\ Len(co.co_code) = Len(ConcatAssembled(c))
          /\ \A k \in 1..Len(c) :
               /\ linenos[k][1] = Len(ConcatAssembled(SubSeq(c, 1, k - 1)))
               /\ SubSeq(co.co_code, linenos[k][1] + 1, linenos[k][1] + c[k].size)
                    = assemble(c[k])

C10_Witness ==
  /\ pc = "code" /\ nset = 1
  /\ Ops(self.instrs) = <<<<"LOAD_CONST", Some(300)>>, <<"LOAD_CONST", Some(2147483647)>>,
                          <<"NOP", UNSET>>>>
  /\ linenos = <<<<0, 10>>, <<4, 10>>, <<12, 10>>>>

\* a flat line table as its pairs <<offset delta, signed line delta>>
TablePairs(lnotab) ==
  [k \in 1..(Len(lnotab) \div 2) |->
     <<lnotab[2 * k - 1],
       IF lnotab[2 * k] >= 128 THEN lnotab[2 * k] - 256 ELSE lnotab[2 * k]>>]

RECURSIVE SumField(_, _)
SumField(pairs, f) ==
  IF pairs = <<>> THEN 0 ELSE pairs[1][f] + SumField(Tail(pairs), f)

\* the offset of the latest line change among the first k pairs, 0 if none
RECURSIVE ChangeOffset(_)
ChangeOffset(k) ==
  IF k = 0 THEN 0
  ELSE IF linenos[k][2] # (IF k = 1 THEN lt.first_lineno ELSE linenos[k - 1][2])
  THEN linenos[k][1]
  ELSE ChangeOffset(k - 1)

\* C6: _assemble_lnotab, given non-decreasing offsets, fails no assertion;
\* every pair it emits has an offset delta in 0..255 and a line delta in
\* -127..126; it emits nothing for a line equal to the line last recorded;
\* the pairs emitted for one line change sum to the change's offset delta
\* and line delta, so the whole table sums to the last recorded line.
C6_EntriesBoundedAndLossless ==
  pc \in {"lnotab", "lnotab_done", "failed"} =>
    /\ err = ""
    /\ \A k \in 1..Len(lt.lnotab) : lt.lnotab[k] \in 0..255
    /\ \A k \in 1..Len(TablePairs(lt.lnotab)) :
         /\ TablePairs(lt.lnotab)[k][1] \in 0..255
         /\ TablePairs(lt.lnotab)[k][2] \in (-127)..126
    /\ lt.i > 1 =>
         LET cur == linenos[lt.i - 1]
             prevline == IF lt.i = 2 THEN lt.first_lineno ELSE linenos[lt.i - 2][2]
             e == TablePairs(lt.emitted)
         IN /\ cur[2] = prevline => lt.emitted = <<>>
            /\ cur[2] # prevline =>
                 /\ SumField(e, 2) = cur[2] - prevline
                 /\ SumField(TablePairs(lt.lnotab), 1) = cur[1]
                 /\ SumField(e, 1) = cur[1] - ChangeOffset(lt.i - 2)
            /\ lt.first_lineno + SumField(TablePairs(lt.lnotab), 2) = cur[2]

\* a change of +130 at offset 0 gives (0, 126) then (0, 4); a change of
\* -290 after a gap of 600 bytes gives two (255, 0), two (0, -127), (90, -36)
C6_Witness ==
  /\ pc = "lnotab_done" /\ err = ""
  /\ lt.first_lineno = 10
  /\ linenos = <<<<0, 140>>, <<2, 140>>, <<600, 10>>>>
  /\ co.co_lnotab = <<0, 126, 0, 4, 255, 0, 255, 0, 0, 129, 90, 253>>

\* ----------------------------- properties of the abstract <-> concrete trip
\* the positions of A: the number of real instructions before element i
RECURSIVE InstrsBefore(_, _)
InstrsBefore(seq, i) ==
  IF i <= 1 THEN 0
  ELSE InstrsBefore(seq, i - 1) + (IF seq[i - 1].kind = "Instr" THEN 1 ELSE 0)

IsJump(x) == x.kind = "Instr" /\ x.arg.tag = "label"

\* every label a jump names is declared, exactly once
LabelsDeclared(bc) ==
  /\ \A i \in 1..Len(bc.instrs) :
       IsJump(bc.instrs[i])
         => \E k \in 1..Len(bc.instrs) :
              bc.instrs[k].kind = "Label" /\ bc.instrs[k].id = bc.instrs[i].arg.id
  /\ \A i, k \in 1..Len(bc.instrs) :
       (bc.instrs[i].kind = "Label" /\ bc.instrs[k].kind = "Label"
          /\ bc.instrs[i].id = bc.instrs[k].id) => i = k

\* the position (instructions before it) of the label a jump names
LabelPos(bc, id) ==
  InstrsBefore(bc.instrs, CHOOSE k \in 1..Len(bc.instrs) :
                            bc.instrs[k].kind = "Label" /\ bc.instrs[k].id = id)

\* every relative jump names a label declared after the jump
RelativeForward(bc) ==
  \A i \in 1..Len(bc.instrs) :
    (IsJump(bc.instrs[i]) /\ opmap[bc.instrs[i].name] \in hasjrel)
      => \A k \in 1..Len(bc.instrs) :
           (bc.instrs[k].kind = "Label" /\ bc.instrs[k].id = bc.instrs[i].arg.id) => k > i

\* the line in effect at every real instruction of A
RECURSIVE EffectiveLines(_, _, _)
EffectiveLines(seq, i, lineno) ==
  IF i > Len(seq) THEN <<>>
  ELSE IF seq[i].kind = "Label" THEN EffectiveLines(seq, i + 1, lineno)
  ELSE IF seq[i].kind = "SetLineno" THEN EffectiveLines(seq, i + 1, seq[i].lineno[1])
  ELSE LET ln == IF seq[i].lineno # None THEN seq[i].lineno[1] ELSE lineno
       IN <<ln>> \o EffectiveLines(seq, i + 1, ln)

\* C3: to_bytecode(to_concrete_bytecode(A)) succeeds and is A up to the
\* identity of labels: the same instructions, operands and lines in the
\* same order, a label exactly at the positions A's jumps target (the end of
\* the sequence included), every jump naming the label at the position of
\* its label in A.
C3_AbstractRoundTrip ==
  (pc = "roundtrip" /\ LabelsDeclared(bytecode) /\ RelativeForward(bytecode))
    => LET a == SelectKind(bytecode.instrs, "Instr")
           lines == EffectiveLines(bytecode.instrs, 1, bytecode.first_lineno)
           r == SelectKind(result, "Instr")
           targets == {LabelPos(bytecode, a[k].arg.id) : k \in {j \in 1..Len(a) : IsJump(a[j])}}
           labelled == {InstrsBefore(result, i) : i \in {j \in 1..Len(result) : result[j].kind = "Label"}}
           rpos(id) == InstrsBefore(result, CHOOSE i \in 1..Len(result) :
                                              result[i].kind = "Label" /\ result[i].id = id)
       IN /\ err = ""
          /\ Len(r) = Len(a)
          /\ \A k \in 1..Len(a) :
               /\ r[k].name = a[k].name
               /\ r[k].lineno = Some(lines[k])
               /\ IsJump(a[k]) <=> IsJump(r[k])
               /\ ~IsJump(a[k]) => r[k].arg = a[k].arg
               /\ (IsJump(a[k]) /\ IsJump(r[k]))
                    => rpos(r[k].arg.id) = LabelPos(bytecode, a[k].arg.id)
          /\ labelled = targets

\* the final offsets of the container to_concrete_bytecode returned
FinalOffsets == compute_offsets(self.instrs)

\* C4: in the container to_concrete_bytecode returns, get_jump_target of
\* every jump that had a label, taken at the jump's final offset, is the
\* final offset of the instruction at the label (the end of the code for a
\* label after the last instruction).
C4_JumpsResolvedInFinalLayout ==
  pc = "concrete" =>
    \A j \in 1..Len(conv.jumps) :
      LET index == conv.jumps[j][1]
          instr == self.instrs[index + 1]
          labeloff == Len(ConcatAssembled(SubSeq(self.instrs, 1, conv.labels[conv.jumps[j][2]])))
          ownoff == Len(ConcatAssembled(SubSeq(self.instrs, 1, index)))
      IN /\ get_jump_target(instr, ownoff) = Some(labeloff)
         /\ opmap[instr.name] \in hasjabs => instr.arg[1] = labeloff
         /\ opmap[instr.name] \in hasjrel
              => ownoff + Len(assemble(instr)) + instr.arg[1] = labeloff

\* two passes were needed: a relative and an absolute jump over 256 bytes
C4_Witness ==
  /\ pc = "concrete" /\ conv.passes = 2 /\ err = ""
  /\ Len(conv.jumps) = 2
  /\ self.instrs[1].name = "JUMP_FORWARD" /\ self.instrs[1].arg = Some(254)
  /\ self.instrs[2].name = "JUMP_ABSOLUTE" /\ self.instrs[2].arg = Some(258)

\* C5: when every jump's label is declared and every relative jump is
\* forward, the second call of compute_jumps changes no size: the
\* RuntimeError of to_concrete_bytecode is never raised.
C5_ConvergesInTwoPasses ==
  (pc \in {"concrete", "failed"} /\ LabelsDeclared(bytecode) /\ RelativeForward(bytecode))
    => err # "RuntimeError: compute_jumps() must not modify jumps"

\* the relative jumps of the queue whose label is at or before them
BackwardRelativeJumps ==
  {j \in 1..Len(conv.jumps) :
     /\ opmap[conv.queued[conv.jumps[j][1] + 1].name] \in hasjrel
     /\ conv.jumps[j][2] \in DOMAIN conv.labels
     /\ conv.labels[conv.jumps[j][2]] <= conv.jumps[j][1]}

\* C7: when a relative jump's label resolves to an offset smaller than the
\* end of the jump, to_concrete_bytecode raises and returns no container;
\* no returned container holds a relative jump whose operand stands for a
\* negative distance.
C7_BackwardRelativeJumpRaises ==
  /\ (pc \in {"concrete", "failed"} /\ BackwardRelativeJumps # {})
       => (pc = "failed" /\ err # "" /\ self = NoConcrete)
  /\ pc = "concrete" =>
       \A j \in 1..Len(conv.jumps) :
         LET index == conv.jumps[j][1]
             instr == self.instrs[index + 1]
         IN opmap[instr.name] \in hasjrel
              => /\ instr.arg[1] >= 0
                 /\ FinalOffsets[conv.labels[conv.jumps[j][2]] + 1]
                      - (FinalOffsets[index + 1] + instr.size) = instr.arg[1]

\* a relative jump at offset 2, of size 2, to a label at offset 0: -4
C7_Witness ==
  /\ pc = "failed" /\ err = "ValueError: argument out of range"
  /\ BackwardRelativeJumps = {1}
  /\ LET off == compute_offsets(conv.queued)
         index == conv.jumps[1][1]
     IN /\ off[index + 1] = 2 /\ conv.queued[index + 1].size = 2
        /\ off[conv.labels[conv.jumps[1][2]] + 1] = 0

====
